---- MODULE Spec2Model ----
(***************************************************************************)
(* Model of the simple-compiler front end: the lexer (src/lexer/mod.rs),    *)
(* the parser (src/parser/mod.rs) pulling tokens from the lexer's          *)
(* iterator, and the semantic analyzer (src/semantic/mod.rs) that orders   *)
(* the type definitions.                                                   *)
(***************************************************************************)
EXTENDS Integers, Sequences, FiniteSets, TLC

VARIABLES
    tokens,       \* what the Peekable<Lexer> yields, item by item
    pos,          \* number of items already taken from the token iterator
    nodes,        \* the items Parser::next has returned so far, in order
    definitions,  \* Semantic::analyze: HashMap name -> Vec<(field, type)>
    errors,       \* Semantic::analyze: Vec<Token>
    sb,           \* SemanticBuilder: order, visited, cycles
    pending,      \* keys of definitions not yet taken by the loop of build
    pc,           \* "analyze" | "build" | "done" ("panic": unreachable!())
    result,       \* what Semantic::analyze returned
    input,        \* Lexer: the characters of the source text
    ipos,         \* Lexer: number of characters taken from input
    lexed,        \* the tokens the Lexer's iterator has yielded so far
    lstate        \* "lexing" | "ended" (the iterator answered None) | "idle"

parservars == <<tokens, pos, nodes, definitions, errors, sb, pending, pc, result>>
lexervars == <<input, ipos, lexed, lstate>>
vars == <<tokens, pos, nodes, definitions, errors, sb, pending, pc, result,
          input, ipos, lexed, lstate>>

---------------------------------------------------------------------------
(* Bounds of the model.                                                    *)

\* Statements per input program.
MaxStmts == 2
\* Parameters per well-formed statement of an input program.
MaxParams == 2
\* Parameters per definition of a definition table.
MaxDeps == 2
\* Pieces (punctuation marks, blanks, words) per source text.
MaxPieces == 3

\* Names of the statements of the input programs.
StmtNames == {"A", "B"}
\* Type names of the definition tables, in the order they are written out.
TypeNames == <<"A", "B", "C">>

---------------------------------------------------------------------------
(* Tokens (lexer::Token) and AST nodes (parser::Ast).                      *)

Tok(k) == [kind |-> k, text |-> ""]
Ident(s) == [kind |-> "Ident", text |-> s]
\* Option::None as an item of the token iterator: the lexer answers None
\* when the input is exhausted and also at a NUL character, after which the
\* iterator goes on with the rest of the input.
None == [kind |-> "None", text |-> ""]

TypeDefinition(name, parameters) ==
    [kind |-> "TypeDefinition", name |-> name, parameters |-> parameters]
Parameter(name, typename) ==
    [kind |-> "Parameter", name |-> name, typename |-> typename]
Unexpected(token) == [kind |-> "Unexpected", token |-> token]
\* Option::None as the item of the Ast iterator.
NoAst == [kind |-> "None"]

Ok(v, p) == [ok |-> TRUE, val |-> v, pos |-> p]
Err(t, p) == [ok |-> FALSE, val |-> t, pos |-> p]

---------------------------------------------------------------------------
(* Lexer (src/lexer/mod.rs). A character is a one-letter string, NUL is    *)
(* the character '\0'; every operator takes the Peekable<Chars> as the     *)
(* pair (cs, i) and returns the position it leaves the characters at.      *)

NUL == "NUL"
\* char::is_alphabetic, char::is_digit(10), char::is_whitespace on the
\* characters of the source texts.
is_alphabetic(ch) == ch \in {"t", "i", "p", "o"}
is_digit(ch) == ch \in {"1"}
is_whitespace(ch) == ch \in {" "}

\* The contents of the keyword.
tipo == <<"t", "i", "p", "o">>

\* The loop of read_identifier, with the characters gathered so far.
RECURSIVE read_identifier(_, _, _)

\* The loop of read_identifier taking alphabetic characters only.
read_identifier_letters_only(cs, i, content) ==
    IF i < Len(cs) /\ is_alphabetic(cs[i + 1])
    THEN read_identifier(cs, i + 1, Append(content, cs[i + 1]))
    ELSE [tok |-> IF content = tipo THEN Tok("Type") ELSE Ident(content),
          pos |-> i]

read_identifier(cs, i, content) ==
    IF i < Len(cs) /\ (is_alphabetic(cs[i + 1]) \/ is_digit(cs[i + 1]))
    THEN read_identifier(cs, i + 1, Append(content, cs[i + 1]))
    ELSE [tok |-> IF content = tipo THEN Tok("Type") ELSE Ident(content),
          pos |-> i]

RECURSIVE consume_whitespace(_, _)
consume_whitespace(cs, i) ==
    IF i < Len(cs) /\ is_whitespace(cs[i + 1])
    THEN consume_whitespace(cs, i + 1)
    ELSE i

\* The match of next_token on the character read at position q.
next_token_match(cs, q) ==
    IF q >= Len(cs) THEN [tok |-> Tok("EOF"), pos |-> q]
    ELSE IF cs[q + 1] = "(" THEN [tok |-> Tok("ParL"), pos |-> q + 1]
    ELSE IF cs[q + 1] = ")" THEN [tok |-> Tok("ParR"), pos |-> q + 1]
    ELSE IF cs[q + 1] = ":" THEN [tok |-> Tok("Colon"), pos |-> q + 1]
    ELSE IF cs[q + 1] = ";" THEN [tok |-> Tok("Semicolon"), pos |-> q + 1]
    ELSE IF cs[q + 1] = "," THEN [tok |-> Tok("Comma"), pos |-> q + 1]
    ELSE IF cs[q + 1] = NUL THEN [tok |-> Tok("EOF"), pos |-> q + 1]
    ELSE IF is_alphabetic(cs[q + 1])
         THEN read_identifier(cs, q + 1, <<cs[q + 1]>>)
    ELSE [tok |-> Tok("Illegal"), pos |-> q + 1]

next_token(cs, i) == next_token_match(cs, consume_whitespace(cs, i))

\* The match of Lexer::next on the token r that next_token returns.
Lexer_next_match(r) ==
    IF r.tok.kind = "EOF" THEN [item |-> None, pos |-> r.pos]
    ELSE [item |-> r.tok, pos |-> r.pos]

\* Lexer::next handing the token on as it is: Some(self.next_token()).
Lexer_next_some(cs, i) ==
    [item |-> next_token(cs, i).tok, pos |-> next_token(cs, i).pos]

\* impl Iterator for Lexer: the item returned and the position left.
Lexer_next(cs, i) == Lexer_next_match(next_token(cs, i))

---------------------------------------------------------------------------
(* Parser (src/parser/mod.rs). Every operator takes the token iterator as  *)
(* the pair (ts, p) and returns the position it leaves the iterator at.    *)

peek_token(ts, p) == IF p < Len(ts) THEN ts[p + 1] ELSE None

read_token(ts, p) ==
    IF p < Len(ts) THEN [tok |-> ts[p + 1], pos |-> p + 1]
    ELSE [tok |-> None, pos |-> p]

\* The arms `Some(t) => Err(t)` and `None => Err(Token::EOF)`.
ErrToken(t) == IF t = None THEN Tok("EOF") ELSE t

RECURSIVE advance_until_semicolon(_, _)

\* The loop of advance_until_semicolon peeking: it stops in front of the
\* Semicolon and leaves it in the iterator.
advance_until_before_semicolon(ts, p) ==
    IF peek_token(ts, p) = None \/ peek_token(ts, p) = Tok("Semicolon") THEN p
    ELSE advance_until_semicolon(ts, p + 1)

\* The loop of advance_until_semicolon going on over the Semicolons that
\* follow the first one.
advance_over_semicolons(ts, p) ==
    LET r == read_token(ts, p) IN
    IF r.tok = None THEN r.pos
    ELSE IF r.tok = Tok("Semicolon") /\ peek_token(ts, r.pos) # Tok("Semicolon")
         THEN r.pos
    ELSE advance_until_semicolon(ts, r.pos)

advance_until_semicolon(ts, p) ==
    LET r == read_token(ts, p) IN
    IF r.tok = None \/ r.tok = Tok("Semicolon") THEN r.pos
    ELSE advance_until_semicolon(ts, r.pos)

parse_parameter(ts, p) ==
    LET r1 == read_token(ts, p) IN
    IF r1.tok.kind = "Ident" THEN
        LET r2 == read_token(ts, r1.pos) IN
        IF r2.tok = Tok("Colon") THEN
            LET r3 == read_token(ts, r2.pos) IN
            IF r3.tok.kind = "Ident"
            THEN Ok(Parameter(r1.tok.text, r3.tok.text), r3.pos)
            ELSE Err(ErrToken(r3.tok), r3.pos)
        ELSE Err(ErrToken(r2.tok), r2.pos)
    ELSE Err(ErrToken(r1.tok), r1.pos)

RECURSIVE parse_parameters(_, _)

\* parse_parameters asking for a parameter after every Comma.
parse_parameters_after_every_comma(ts, p) ==
    LET first == parse_parameter(ts, p) IN
    IF ~first.ok THEN first
    ELSE IF peek_token(ts, first.pos) = Tok("Comma") THEN
        LET rest == parse_parameters(ts, read_token(ts, first.pos).pos) IN
        IF rest.ok THEN Ok(<<first.val>> \o rest.val, rest.pos)
        ELSE rest
    ELSE Ok(<<first.val>>, first.pos)

\* parse_parameters putting the parameters that follow in front.
parse_parameters_reversed(ts, p) ==
    LET first == parse_parameter(ts, p) IN
    IF ~first.ok THEN first
    ELSE IF peek_token(ts, first.pos) = Tok("Comma") THEN
        LET q == read_token(ts, first.pos).pos IN
        IF peek_token(ts, q) = Tok("ParR") THEN Ok(<<first.val>>, q)
        ELSE LET rest == parse_parameters(ts, q) IN
             IF rest.ok THEN Ok(rest.val \o <<first.val>>, rest.pos)
             ELSE rest
    ELSE Ok(<<first.val>>, first.pos)

parse_parameters(ts, p) ==
    LET first == parse_parameter(ts, p) IN
    IF ~first.ok THEN first
    ELSE IF peek_token(ts, first.pos) = Tok("Comma") THEN
        LET q == read_token(ts, first.pos).pos IN
        IF peek_token(ts, q) = Tok("ParR") THEN Ok(<<first.val>>, q)
        ELSE LET rest == parse_parameters(ts, q) IN
             IF rest.ok THEN Ok(<<first.val>> \o rest.val, rest.pos)
             ELSE rest
    ELSE Ok(<<first.val>>, first.pos)

parse_definition(ts, p) ==
    LET r1 == read_token(ts, p) IN
    IF r1.tok # Tok("Type") THEN Err(ErrToken(r1.tok), r1.pos)
    ELSE
    LET r2 == read_token(ts, r1.pos) IN
    IF r2.tok.kind # "Ident" THEN Err(ErrToken(r2.tok), r2.pos)
    ELSE
    LET r3 == read_token(ts, r2.pos) IN
    IF r3.tok # Tok("ParL") THEN Err(ErrToken(r3.tok), r3.pos)
    ELSE
    LET ps == parse_parameters(ts, r3.pos) IN
    IF ~ps.ok THEN ps
    ELSE
    LET r4 == read_token(ts, ps.pos) IN
    IF r4.tok # Tok("ParR") THEN Err(ErrToken(r4.tok), r4.pos)
    ELSE
    LET r5 == read_token(ts, r4.pos) IN
    IF r5.tok # Tok("Semicolon") THEN Err(ErrToken(r5.tok), r5.pos)
    ELSE Ok(TypeDefinition(r2.tok.text, ps.val), r5.pos)

\* The match of Parser::next on the result r of parse_definition.
next_match(ts, r) ==
    IF r.ok THEN [item |-> r.val, pos |-> r.pos]
    ELSE IF r.val = Tok("EOF") THEN [item |-> NoAst, pos |-> r.pos]
    ELSE [item |-> Unexpected(r.val),
          pos |-> advance_until_semicolon(ts, r.pos)]

\* Parser::next taking a statement that begins with an identifier for a
\* parameter and returning the Parameter node.
Parser_next_or_parameter(ts, p) ==
    IF peek_token(ts, p).kind = "Ident"
    THEN next_match(ts, parse_parameter(ts, p))
    ELSE next_match(ts, parse_definition(ts, p))

\* impl Iterator for Parser: the item returned and the position left.
Parser_next(ts, p) == next_match(ts, parse_definition(ts, p))

---------------------------------------------------------------------------
(* Semantic analyzer (src/semantic/mod.rs).                                *)

EmptyTable == [n \in {} |-> <<>>]

\* HashMap::insert: a later definition of a name replaces the earlier one.
insert(table, name, v) ==
    [n \in DOMAIN table \cup {name} |-> IF n = name THEN v ELSE table[n]]

Contains(seq, x) == \E i \in 1..Len(seq) : seq[i] = x

RECURSIVE build_parameters(_)
build_parameters(ast) ==
    IF ast = <<>> THEN <<>>
    ELSE LET a == Head(ast) IN
         (IF a.kind = "Parameter" THEN <<(<<a.name, a.typename>>)>> ELSE <<>>)
             \o build_parameters(Tail(ast))

\* The SemanticBuilder that build constructs before its loop.
SemanticBuilder(defs) ==
    [definitions |-> defs, order |-> <<>>, visited |-> {}, cycles |-> {}]

\* The builder of an analysis that has not reached build.
NoBuilder == SemanticBuilder(EmptyTable)

RECURSIVE visit(_, _), visit_dependencies(_, _, _)

\* The loop `for &(_, ref v) in d { self.visit(v) }` from its i-th element on.
visit_dependencies(s, d, i) ==
    IF i > Len(d) THEN s
    ELSE visit_dependencies(visit(s, d[i][2]), d, i + 1)

\* visit as the design note words it: a name marked in cycles is left out of
\* order.
visit_leaving_out_cycles(s, node) ==
    IF Contains(s.order, node) THEN s
    ELSE IF node \in s.visited THEN [s EXCEPT !.cycles = s.visited]
    ELSE
        LET s1 == [s EXCEPT !.visited = @ \cup {node}]
            s2 == IF node \in DOMAIN s1.definitions
                  THEN visit_dependencies(s1, s1.definitions[node], 1)
                  ELSE s1
        IN  IF node \in s2.cycles THEN s2
            ELSE [s2 EXCEPT !.order = Append(@, node), !.visited = @ \ {node}]

\* visit pushing the name before it walks the dependencies.
visit_pushing_first(s, node) ==
    IF Contains(s.order, node) THEN s
    ELSE IF node \in s.visited THEN [s EXCEPT !.cycles = s.visited]
    ELSE
        LET s1 == [s EXCEPT !.visited = @ \cup {node},
                            !.order = Append(@, node)]
            s2 == IF node \in DOMAIN s1.definitions
                  THEN visit_dependencies(s1, s1.definitions[node], 1)
                  ELSE s1
        IN  [s2 EXCEPT !.visited = @ \ {node}]

\* visit keeping a name without a definition out of order.
visit_defined_only(s, node) ==
    IF Contains(s.order, node) THEN s
    ELSE IF node \in s.visited THEN [s EXCEPT !.cycles = s.visited]
    ELSE IF node \notin DOMAIN s.definitions THEN s
    ELSE
        LET s1 == [s EXCEPT !.visited = @ \cup {node}]
            s2 == visit_dependencies(s1, s1.definitions[node], 1)
        IN  [s2 EXCEPT !.order = Append(@, node), !.visited = @ \ {node}]

\* visit without the early return for a name that is already in order.
visit_without_order_guard(s, node) ==
    IF node \in s.visited THEN [s EXCEPT !.cycles = s.visited]
    ELSE
        LET s1 == [s EXCEPT !.visited = @ \cup {node}]
            s2 == IF node \in DOMAIN s1.definitions
                  THEN visit_dependencies(s1, s1.definitions[node], 1)
                  ELSE s1
        IN  [s2 EXCEPT !.order = Append(@, node), !.visited = @ \ {node}]

\* visit taking the definition of the name out of the table as it walks it.
visit_taking_definition(s, node) ==
    IF Contains(s.order, node) THEN s
    ELSE IF node \in s.visited THEN [s EXCEPT !.cycles = s.visited]
    ELSE
        LET s1 == [s EXCEPT !.visited = @ \cup {node}]
            s2 == IF node \in DOMAIN s1.definitions
                  THEN visit_dependencies(
                           [s1 EXCEPT !.definitions =
                               [n \in DOMAIN @ \ {node} |-> @[n]]],
                           s1.definitions[node], 1)
                  ELSE s1
        IN  [s2 EXCEPT !.order = Append(@, node), !.visited = @ \ {node}]

\* visit storing, at a repeat, the names on the way other than the repeated
\* one.
visit_storing_the_others(s, node) ==
    IF Contains(s.order, node) THEN s
    ELSE IF node \in s.visited THEN [s EXCEPT !.cycles = s.visited \ {node}]
    ELSE
        LET s1 == [s EXCEPT !.visited = @ \cup {node}]
            s2 == IF node \in DOMAIN s1.definitions
                  THEN visit_dependencies(s1, s1.definitions[node], 1)
                  ELSE s1
        IN  [s2 EXCEPT !.order = Append(@, node), !.visited = @ \ {node}]

\* visit without `self.visited.remove(node)` at its end.
visit_without_remove(s, node) ==
    IF Contains(s.order, node) THEN s
    ELSE IF node \in s.visited THEN [s EXCEPT !.cycles = s.visited]
    ELSE
        LET s1 == [s EXCEPT !.visited = @ \cup {node}]
            s2 == IF node \in DOMAIN s1.definitions
                  THEN visit_dependencies(s1, s1.definitions[node], 1)
                  ELSE s1
        IN  [s2 EXCEPT !.order = Append(@, node)]

visit(s, node) ==
    IF Contains(s.order, node) THEN s
    ELSE IF node \in s.visited THEN [s EXCEPT !.cycles = s.visited]
    ELSE
        LET s1 == [s EXCEPT !.visited = @ \cup {node}]
            s2 == IF node \in DOMAIN s1.definitions
                  THEN visit_dependencies(s1, s1.definitions[node], 1)
                  ELSE s1
        IN  [s2 EXCEPT !.order = Append(@, node), !.visited = @ \ {node}]

\* Semantic { .. } with the members of cycles filtered out of order.
Semantic_without_cycles(s) ==
    [kind |-> "Ok", definitions |-> s.definitions,
     order |-> SelectSeq(s.order, LAMBDA n : n \notin s.cycles),
     cycles |-> s.cycles]

\* The value build returns: Ok(Semantic { definitions, order, cycles }).
Semantic(s) ==
    [kind |-> "Ok", definitions |-> s.definitions, order |-> s.order,
     cycles |-> s.cycles]

\* Err(errors) of analyze.
UnexpectedTokens(errs) == [kind |-> "Err", errors |-> errs]

NoResult == [kind |-> "none"]

\* The loop of build over the keys, taken in the order `keys`, from the
\* i-th key on.
RECURSIVE visit_keys(_, _, _)
visit_keys(s, keys, i) ==
    IF i > Len(keys) THEN s
    ELSE visit_keys(visit(s, keys[i]), keys, i + 1)

\* SemanticBuilder::build when the HashMap hands out its keys as `keys`.
build(defs, keys) == Semantic(visit_keys(SemanticBuilder(defs), keys, 1))

---------------------------------------------------------------------------
(* Input programs.                                                         *)

\* The tokens of `name: type` entries separated by commas.
RECURSIVE ParameterTokens(_)
ParameterTokens(params) ==
    IF params = <<>> THEN <<>>
    ELSE <<Ident(Head(params)[1]), Tok("Colon"), Ident(Head(params)[2])>>
         \o (IF Len(params) > 1 THEN <<Tok("Comma")>> ELSE <<>>)
         \o ParameterTokens(Tail(params))

\* The tokens of `tipo name(params);`, with a trailing comma when asked.
Statement(name, params, comma) ==
    <<Tok("Type"), Ident(name), Tok("ParL")>>
        \o ParameterTokens(params)
        \o (IF comma THEN <<Tok("Comma")>> ELSE <<>>)
        \o <<Tok("ParR"), Tok("Semicolon")>>

\* Parameter lists of the input programs: every parameter is named x, the
\* types alternate between the two statement names.
ParamList(k) == [j \in 1..k |-> <<"x", IF j % 2 = 1 THEN "B" ELSE "A">>]

\* The statements of the grammar without a trailing comma.
Plain == { Statement(n, ParamList(k), FALSE) : n \in StmtNames, k \in 0..MaxParams }

\* The statements of the grammar: a trailing comma may follow a parameter.
WellFormed ==
    Plain \cup { Statement(n, ParamList(k), TRUE) :
                    n \in StmtNames, k \in 1..MaxParams }

Delete(s, i) == SubSeq(s, 1, i - 1) \o SubSeq(s, i + 1, Len(s))
Insert(s, i, t) == SubSeq(s, 1, i) \o <<t>> \o SubSeq(s, i + 1, Len(s))

\* What a slip of the pen puts between two tokens.
Inserted == {Tok("Semicolon"), Tok("Comma"), Tok("Illegal"), None}

\* A statement as written, with one token left out, or with one token
\* too many (a comma before the closing parenthesis among them).
Chunks ==
    UNION { {s} \cup { Delete(s, i) : i \in 1..Len(s) }
                \cup { Insert(s, i, t) : i \in 0..Len(s), t \in Inserted }
            : s \in Plain }

RECURSIVE Programs(_)
Programs(n) ==
    IF n = 0 THEN {<<>>}
    ELSE LET shorter == Programs(n - 1) IN
         shorter \cup { p \o c : p \in shorter, c \in Chunks }

\* Definition tables: each defined name has 1..MaxDeps parameters, named x,
\* of types among TypeNames (a parsed definition has at least one).
Names == { TypeNames[i] : i \in 1..Len(TypeNames) }

DepLists ==
    UNION { [1..k -> { <<"x", t>> : t \in Names }] : k \in 1..MaxDeps }

Tables == UNION { [keys -> DepLists] : keys \in SUBSET Names }

\* The program that defines the names of a table in the order of TypeNames.
RECURSIVE Render(_, _)
Render(table, i) ==
    IF i > Len(TypeNames) THEN <<>>
    ELSE (IF TypeNames[i] \in DOMAIN table
          THEN Statement(TypeNames[i], table[TypeNames[i]], FALSE)
          ELSE <<>>) \o Render(table, i + 1)

---------------------------------------------------------------------------
(* The state machine: Semantic::analyze(Parser::new(Lexer::new(input))).   *)

Start ==
    /\ pos = 0
    /\ nodes = <<>>
    /\ definitions = EmptyTable
    /\ errors = <<>>
    /\ sb = NoBuilder
    /\ pending = {}
    /\ pc = "analyze"
    /\ result = NoResult

\* The lexer of a run that starts from tokens.
LexerIdle == input = <<>> /\ ipos = 0 /\ lexed = <<>> /\ lstate = "idle"

\* Any input: statements with slips.
Init == tokens \in Programs(MaxStmts) /\ Start /\ LexerIdle

\* The program of a definition table, as it is or followed by a second
\* semicolon (the inputs of the examples of Semantic::analyze).
InitTable ==
    /\ \E table \in Tables, tail \in {<<>>, <<Tok("Semicolon")>>} :
           tokens = Render(table, 1) \o tail
    /\ Start
    /\ LexerIdle

\* The body of `for definition in ast` giving up at the first Unexpected node.
analyze_first_error(r) ==
    /\ pc = "analyze"
    /\ r.item # NoAst
    /\ pos' = r.pos
    /\ nodes' = Append(nodes, r.item)
    /\ IF r.item.kind = "TypeDefinition" THEN
            /\ definitions' = insert(definitions, r.item.name,
                                     build_parameters(r.item.parameters))
            /\ UNCHANGED <<errors, pc, result>>
       ELSE /\ errors' = Append(errors, r.item.token)
            /\ result' = UnexpectedTokens(errors')
            /\ pc' = "done"
            /\ UNCHANGED definitions
    /\ UNCHANGED <<tokens, sb, pending>>

\* The body of `for definition in ast` for the item r that the parser returns.
analyze_item(r) ==
    /\ pc = "analyze"
    /\ r.item # NoAst
    /\ pos' = r.pos
    /\ nodes' = Append(nodes, r.item)
    /\ IF r.item.kind = "TypeDefinition" THEN
            /\ definitions' = insert(definitions, r.item.name,
                                     build_parameters(r.item.parameters))
            /\ UNCHANGED <<errors, pc>>
       ELSE IF r.item.kind = "Unexpected" THEN
            /\ errors' = Append(errors, r.item.token)
            /\ UNCHANGED <<definitions, pc>>
       ELSE \* unreachable!()
            /\ pc' = "panic"
            /\ UNCHANGED <<definitions, errors>>
    /\ UNCHANGED <<tokens, sb, pending, result>>

\* The end of the loop (the parser returns None) and `match errors.len()`.
analyze_end(r) ==
    /\ pc = "analyze"
    /\ r.item = NoAst
    /\ pos' = r.pos
    /\ IF Len(errors) = 0 THEN
            \* 0 => SemanticBuilder::build(definitions)
            /\ sb' = SemanticBuilder(definitions)
            /\ pending' = DOMAIN definitions
            /\ pc' = "build"
            /\ UNCHANGED result
       ELSE \* _ => Err(errors)
            /\ result' = UnexpectedTokens(errors)
            /\ pc' = "done"
            /\ UNCHANGED <<sb, pending>>
    /\ UNCHANGED <<tokens, nodes, definitions, errors>>

\* One iteration of `for definition in ast` that gets an item.
AnalyzeNext == analyze_item(Parser_next(tokens, pos)) /\ UNCHANGED lexervars

\* The iterator ends with errors recorded: analyze returns Err(errors).
AnalyzeErr ==
    /\ Len(errors) # 0
    /\ analyze_end(Parser_next(tokens, pos))
    /\ UNCHANGED lexervars

\* The iterator ends with no error: analyze enters SemanticBuilder::build.
AnalyzeBuild ==
    /\ Len(errors) = 0
    /\ analyze_end(Parser_next(tokens, pos))
    /\ UNCHANGED lexervars

\* One iteration of `for node in sb.definitions.clone().keys()`; a HashMap
\* hands out its keys in an order of its own.
BuildVisit ==
    /\ pc = "build"
    /\ \E node \in pending :
        /\ sb' = visit(sb, node)
        /\ pending' = pending \ {node}
    /\ UNCHANGED <<tokens, pos, nodes, definitions, errors, pc, result>>
    /\ UNCHANGED lexervars

\* The loop is over: build returns Ok(Semantic { .. }).
BuildReturn ==
    /\ pc = "build"
    /\ pending = {}
    /\ result' = Semantic(sb)
    /\ pc' = "done"
    /\ UNCHANGED <<tokens, pos, nodes, definitions, errors, sb, pending>>
    /\ UNCHANGED lexervars

Next == AnalyzeNext \/ AnalyzeErr \/ AnalyzeBuild \/ BuildVisit \/ BuildReturn

Spec == Init /\ [][Next]_vars

SpecTable == InitTable /\ [][Next]_vars

\* A statement with at most one slip, alone or followed by a statement as
\* written.
InitFair ==
    /\ tokens \in { p \o c : p \in Programs(1), c \in Plain \cup {<<>>} }
    /\ Start
    /\ LexerIdle

\* analyze is a sequential program: a step that can be taken is taken. This
\* is WF_vars(Next) with ENABLED <<Next>>_vars written out: a step is
\* possible exactly while the program is in one of its two loops.
FairSpec ==
    /\ InitFair
    /\ [][Next]_vars
    /\ ([]<>(pc \notin {"analyze", "build"}) \/ []<><<Next>>_vars)

\* The same running program on the programs of the definition tables.
FairTable ==
    /\ InitTable
    /\ [][Next]_vars
    /\ ([]<>(pc \notin {"analyze", "build"}) \/ []<><<Next>>_vars)

---------------------------------------------------------------------------
(* The lexer iterated on its own: `for token in Lexer::new(input)`.        *)

\* The marks, blanks and words a source text is put together from.
Pieces ==
    { <<"(">>, <<")">>, <<":">>, <<";">>, <<",">>, <<NUL>>, <<" ">>, <<"#">>,
      <<"1">>, tipo, <<"t", "i">>, <<"o", "1">> }

RECURSIVE Texts(_)
Texts(n) ==
    IF n = 0 THEN {<<>>}
    ELSE LET shorter == Texts(n - 1) IN
         shorter \cup { t \o c : t \in shorter, c \in Pieces }

InitLexer ==
    /\ input \in Texts(MaxPieces)
    /\ ipos = 0
    /\ lexed = <<>>
    /\ lstate = "lexing"
    /\ tokens = <<>>
    /\ Start

\* The loop takes the item r from the iterator: Some(token).
lex_item(r) ==
    /\ lstate = "lexing"
    /\ r.item # None
    /\ lexed' = Append(lexed, r.item)
    /\ ipos' = r.pos
    /\ UNCHANGED <<input, lstate>>

\* The loop takes the item r from the iterator: None, the loop is over.
lex_end(r) ==
    /\ lstate = "lexing"
    /\ r.item = None
    /\ ipos' = r.pos
    /\ lstate' = "ended"
    /\ UNCHANGED <<input, lexed>>

LexItem == lex_item(Lexer_next(input, ipos)) /\ UNCHANGED parservars

LexEnd == lex_end(Lexer_next(input, ipos)) /\ UNCHANGED parservars

NextLexer == LexItem \/ LexEnd

SpecLexer == InitLexer /\ [][NextLexer]_vars

\* The loop is a sequential program: a step that can be taken is taken.
FairLexer == SpecLexer /\ WF_vars(NextLexer)

---------------------------------------------------------------------------
(* Vocabulary of the properties.                                           *)

Succeeded == pc = "done" /\ result.kind = "Ok"
Failed == pc = "done" /\ result.kind = "Err"

\* The names a definition refers to.
Deps(defs, d) == { defs[d][i][2] : i \in DOMAIN defs[d] }

\* The names reached from `frontier` through one or more dependency edges.
RECURSIVE ReachFrom(_, _, _)
ReachFrom(defs, frontier, seen) ==
    LET more == UNION { Deps(defs, n) : n \in frontier \cap DOMAIN defs } \ seen
    IN  IF more = {} THEN seen ELSE ReachFrom(defs, more, seen \cup more)

Reaches(defs, a, b) == b \in ReachFrom(defs, {a}, {})

Range(seq) == { seq[i] : i \in DOMAIN seq }

Before(seq, a, b) ==
    \E i, j \in DOMAIN seq : i < j /\ seq[i] = a /\ seq[j] = b

\* The orders in which a HashMap can hand out the keys S.
KeyOrders(S) ==
    { f \in [1..Cardinality(S) -> S] : \A i, j \in DOMAIN f : f[i] = f[j] => i = j }

deps(types) == [i \in DOMAIN types |-> <<"x", types[i]>>]

---------------------------------------------------------------------------
(* Semantic analyzer: order and cycles.                                    *)

\* C1 as stated: after a successful analysis no name is both in order and
\* in cycles.
C1_CyclesAbsentFromOrder ==
    Succeeded => \A n \in result.cycles : ~Contains(result.order, n)

\* C1, amended: after a successful analysis every name in cycles is also in
\* order; being on a cycle does not keep a name out of order.
C1_CyclesWithinOrder ==
    Succeeded => \A n \in result.cycles : Contains(result.order, n)

\* A mutual two-type cycle has been analysed.
C1_Witness ==
    /\ Succeeded
    /\ definitions = ("A" :> deps(<<"B">>) @@ "B" :> deps(<<"A">>))
    /\ result.cycles = {"A", "B"}

\* C2: after a successful analysis, for every definition d with a dependency
\* edge to a defined type t, if neither d nor t is in cycles then t occurs
\* before d in order.
C2_DependencyBeforeDependent ==
    Succeeded =>
        \A d \in DOMAIN definitions :
            \A t \in Deps(definitions, d) \cap DOMAIN definitions :
                (d \notin result.cycles /\ t \notin result.cycles)
                    => Before(result.order, t, d)

\* C3: after a successful analysis every defined type that lies on a
\* dependency cycle is in cycles.
C3_CycleMembersInCycles ==
    Succeeded =>
        \A n \in DOMAIN definitions :
            Reaches(definitions, n, n) => n \in result.cycles

\* C8: the order in which the keys are visited does not change the names in
\* order nor the names in cycles.
C8_RootOrderIrrelevant ==
    Succeeded =>
        \A keys \in KeyOrders(DOMAIN definitions) :
            LET other == build(definitions, keys) IN
            /\ Range(other.order) = Range(result.order)
            /\ other.cycles = result.cycles

\* C9: after a successful analysis, for every dependency edge d -> t where t
\* does not transitively depend on d, both names are in order and t comes
\* before d; `tipo A(x: long); tipo B(a: A);` gives exactly [long, A, B].
C9_IndependentDependencyFirst ==
    Succeeded =>
        /\ \A d \in DOMAIN definitions :
               \A t \in Deps(definitions, d) :
                   ~Reaches(definitions, t, d) => Before(result.order, t, d)
        /\ definitions = ("A" :> deps(<<"C">>) @@ "B" :> deps(<<"A">>))
               => result.order = <<"C", "A", "B">>

\* A type that depends on the members of a cycle without being on it, and
\* on an undefined name, has been ordered after them.
C9_Witness ==
    /\ Succeeded
    /\ definitions = ("A" :> deps(<<"A">>) @@ "B" :> deps(<<"A", "C">>))
    /\ Before(result.order, "A", "B")
    /\ Before(result.order, "C", "B")

\* C10: after a successful analysis every key of the definition table is in
\* order, the types reported in cycles included.
C10_EveryKeyInOrder ==
    Succeeded =>
        \A k \in DOMAIN definitions : Contains(result.order, k)

\* C -> A, A -> B, B -> A: order holds the three names, cycles holds A and B.
C10_Witness ==
    /\ Succeeded
    /\ definitions = ("A" :> deps(<<"B">>) @@ "B" :> deps(<<"A">>)
                          @@ "C" :> deps(<<"A">>))
    /\ Range(result.order) = {"A", "B", "C"}
    /\ {"A", "B"} \subseteq result.cycles

---------------------------------------------------------------------------
(* Semantic analyzer: undefined names, cycles, duplicates.                 *)

\* The names the definitions refer to that have no definition.
Dangling(defs) == UNION { Deps(defs, d) : d \in DOMAIN defs } \ DOMAIN defs

\* The input ends with a semicolon that terminates no statement.
StraySemicolon ==
    /\ Len(tokens) > 0
    /\ tokens[Len(tokens)] = Tok("Semicolon")
    /\ (Len(tokens) = 1 \/ tokens[Len(tokens) - 1] = Tok("Semicolon"))

\* C11 as stated: a reference to an undefined name does not make the
\* analysis fail, and after the analysis the undefined name is neither in
\* order nor in cycles.
C11_DanglingInNeither ==
    /\ (pc = "done" /\ ~StraySemicolon) => result.kind = "Ok"
    /\ Succeeded =>
          \A t \in Dangling(definitions) :
              ~Contains(result.order, t) /\ t \notin result.cycles

\* C11, amended: a reference to an undefined name does not make the analysis
\* fail; after the analysis the undefined name is in order, before every
\* definition that refers to it, and it is not in cycles.
C11_DanglingInOrderOnly ==
    /\ (pc = "done" /\ ~StraySemicolon) => result.kind = "Ok"
    /\ Succeeded =>
          \A d \in DOMAIN definitions :
              \A t \in Deps(definitions, d) \ DOMAIN definitions :
                  Before(result.order, t, d) /\ t \notin result.cycles

\* `tipo A(x: C);` with no definition of C has been analysed: C leads order.
C11_Witness ==
    /\ Succeeded
    /\ definitions = ("A" :> deps(<<"C">>))
    /\ result.order = <<"C", "A">>
    /\ result.cycles = {}

\* C12: after a successful analysis every name in cycles reaches itself
\* through one or more dependency edges, whatever the order of the roots; for
\* the mutual cycle A <-> B cycles is exactly {A, B}.
C12_CyclesHoldOnlyCycleMembers ==
    Succeeded =>
        /\ \A n \in result.cycles : Reaches(definitions, n, n)
        /\ definitions = ("A" :> deps(<<"B">>) @@ "B" :> deps(<<"A">>))
               => result.cycles = {"A", "B"}

NoDuplicates(seq) == \A i, j \in DOMAIN seq : seq[i] = seq[j] => i = j

\* C13: in every state of the traversal and in the value returned, order
\* holds every name at most once, also for a name that several definitions
\* refer to, that the source defines twice, or that lies on a cycle. (order
\* only grows by appending, so the orders inside one root visit are prefixes
\* of the order it leaves.)
C13_OrderWithoutDuplicates ==
    /\ NoDuplicates(sb.order)
    /\ result.kind = "Ok" => NoDuplicates(result.order)

\* `tipo A(x: B, x: A); tipo A(x: B, x: A);` has been analysed: A is defined
\* twice, refers to itself, and both names are in order.
C13_Witness ==
    /\ Succeeded
    /\ Len(nodes) = 2
    /\ nodes[1] = nodes[2]
    /\ nodes[1] = TypeDefinition("A", <<Parameter("x", "B"), Parameter("x", "A")>>)
    /\ result.cycles = {"A"}
    /\ result.order = <<"B", "A">>

Cyclic(defs) == \E n \in DOMAIN defs : Reaches(defs, n, n)

\* C23: after a successful analysis cycles is empty exactly when no defined
\* type reaches itself, whatever the order of the roots.
C23_CyclesEmptyIffAcyclic ==
    Succeeded => (result.cycles = {} <=> ~Cyclic(definitions))

\* `tipo A(x: A); tipo B(x: C, x: C);` has been analysed with the
\* self-reference visited first: the acyclic part that follows, with its
\* name referred to twice, has not emptied cycles.
C23_Witness ==
    /\ Succeeded
    /\ definitions = ("A" :> deps(<<"A">>) @@ "B" :> deps(<<"C", "C">>))
    /\ result.order = <<"A", "C", "B">>
    /\ result.cycles = {"A"}

\* The names of a definition table: its keys and the names they refer to.
NamesOf(defs) == DOMAIN defs \cup UNION { Deps(defs, d) : d \in DOMAIN defs }

\* How often a name has been pushed, which visit does once each time it
\* gets past its two guards.
Pushes(seq, n) == Cardinality({ i \in DOMAIN seq : seq[i] = n })

\* C24: the traversal terminates for every definition table, with
\* self-references, mutual cycles and dangling references: the analysis
\* comes to its end; every root visit returns and the loop goes on to the
\* keys that are left; visit gets past its guards at most once per name of
\* the table and for no other name; and visited is empty whenever the visit
\* of a root has returned.
C24_TraversalTerminates ==
    /\ <>(pc = "done")
    /\ [](pc \in {"build", "done"} =>
            /\ sb.visited = {}
            /\ \A n \in NamesOf(definitions) : Pushes(sb.order, n) <= 1
            /\ Range(sb.order) \subseteq NamesOf(definitions))
    /\ [][ (pc = "build" /\ pc' = "build")
              => (pending' \subseteq pending /\ pending' # pending) ]_vars

\* `tipo A(x: A, x: B); tipo B(x: A, x: C);` has been analysed to its end:
\* a self-reference, a mutual cycle and a dangling reference to C.
C24_Witness ==
    /\ Succeeded
    /\ definitions = ("A" :> deps(<<"A", "B">>) @@ "B" :> deps(<<"A", "C">>))
    /\ sb.visited = {}
    /\ Range(sb.order) = {"A", "B", "C"}
    /\ Len(sb.order) = 3

---------------------------------------------------------------------------
(* Parser and the gate of analyze.                                         *)

\* Where the statement that starts after position p ends: at its first
\* Semicolon, or with the tokens when there is none.
RECURSIVE StatementEnd(_, _)
StatementEnd(ts, p) ==
    IF p >= Len(ts) THEN Len(ts)
    ELSE IF ts[p + 1] = Tok("Semicolon") THEN p + 1
    ELSE StatementEnd(ts, p + 1)

\* Every item the parser returns for the tokens from position p on.
RECURSIVE ParseAll(_, _)
ParseAll(ts, p) ==
    LET r == Parser_next(ts, p) IN
    IF r.item = NoAst THEN <<>>
    ELSE <<r.item>> \o ParseAll(ts, r.pos)

UnexpectedOf(items) == SelectSeq(items, LAMBDA a : a.kind = "Unexpected")

\* C4: a statement attempt that fails with a token other than end of input
\* consumes at most up through the statement's own terminating Semicolon.
C4_RecoveryStopsAtOwnSemicolon ==
    [][ ( /\ pc = "analyze"
          /\ Len(nodes') = Len(nodes) + 1
          /\ nodes'[Len(nodes')].kind = "Unexpected" )
            => pos' <= StatementEnd(tokens, pos) ]_vars

\* C5: analyze returns Err exactly when the parser emits an Unexpected node
\* for the input, Err holds the token of every such node in emission order
\* and no builder has run; with no Unexpected node it returns Ok.
C5_AllOrNothing ==
    pc = "done" =>
        LET unexpected == UnexpectedOf(ParseAll(tokens, 0)) IN
        /\ result.kind = "Err" <=> unexpected # <<>>
        /\ result.kind = "Err" =>
              /\ result.errors = [i \in DOMAIN unexpected |-> unexpected[i].token]
              /\ sb = NoBuilder
        /\ unexpected = <<>> => result.kind = "Ok"

\* Two statements failed with different tokens and both are reported.
C5_Witness ==
    /\ Failed
    /\ Len(result.errors) = 2
    /\ result.errors[1] # result.errors[2]
    /\ sb = NoBuilder

\* C6: the parser's output ends exactly when an attempt finds no token at
\* its first read; any other failed attempt yields an Unexpected node.
C6_EndsOnlyAtExhaustedInput ==
    [][ (pc = "analyze" /\ pc' # "analyze")
            => peek_token(tokens, pos) = None ]_vars

\* C7: `tipo Name ( ) ;` parses to TypeDefinition(Name, []).
C7_EmptyParameterList ==
    [][ \A n \in StmtNames :
          ( /\ pc = "analyze"
            /\ pos + 5 <= Len(tokens)
            /\ SubSeq(tokens, pos + 1, pos + 5) = Statement(n, <<>>, FALSE) )
              => /\ nodes' = Append(nodes, TypeDefinition(n, <<>>))
                 /\ pos' = pos + 5 ]_vars

\* The first position after p that holds a Semicolon or the end of the
\* sequence (None), or the length of ts when there is none.
FirstStop(ts, p) ==
    IF \E q \in (p + 1)..Len(ts) : ts[q] \in {Tok("Semicolon"), None}
    THEN CHOOSE q \in (p + 1)..Len(ts) :
            /\ ts[q] \in {Tok("Semicolon"), None}
            /\ \A k \in (p + 1)..(q - 1) : ts[k] \notin {Tok("Semicolon"), None}
    ELSE Len(ts)

\* C14: iterating the parser terminates, error recovery included: the loop
\* over the parser's items comes to its end, every call to next that returns
\* a node consumes at least one token and stays within the tokens, and a
\* call that returns Unexpected leaves the iterator where discarding token
\* by token from the error token on first meets a Semicolon or the end.
C14_ParserTerminates ==
    /\ <>(pc # "analyze")
    /\ [][ (pc = "analyze" /\ Len(nodes') = Len(nodes) + 1)
              => /\ pos < pos' /\ pos' <= Len(tokens)
                 /\ nodes'[Len(nodes')].kind = "Unexpected"
                       => pos' = FirstStop(tokens, parse_definition(tokens, pos).pos) ]_vars

\* Recovery has discarded two or more tokens and stopped at a Semicolon
\* with tokens left over, and the loop has come to its end.
C14_Witness ==
    /\ pc = "done"
    /\ Len(nodes) >= 1
    /\ nodes[1].kind = "Unexpected"
    /\ LET e == parse_definition(tokens, 0).pos
           q == FirstStop(tokens, e)
       IN  q >= e + 2 /\ q < Len(tokens) /\ tokens[q] = Tok("Semicolon")

\* The tokens after position p begin with the statement stmt.
StartsWith(ts, p, stmt) ==
    p + Len(stmt) <= Len(ts) /\ SubSeq(ts, p + 1, p + Len(stmt)) = stmt

\* C15: a well-formed statement with one or more parameters and a Comma
\* directly before the closing ParR parses to the TypeDefinition that the
\* statement without that Comma parses to.
C15_TrailingComma ==
    [][ \A n \in StmtNames, k \in 1..MaxParams :
          (pc = "analyze" /\ StartsWith(tokens, pos, Statement(n, ParamList(k), TRUE)))
            => /\ parse_definition(Statement(n, ParamList(k), FALSE), 0).ok
               /\ nodes' = Append(nodes,
                      parse_definition(Statement(n, ParamList(k), FALSE), 0).val)
               /\ pos' = pos + Len(Statement(n, ParamList(k), TRUE)) ]_vars

\* `tipo A(x: B, x: A,);` has been parsed to a TypeDefinition with both
\* parameters.
C15_Witness ==
    /\ tokens = Statement("A", ParamList(MaxParams), TRUE)
    /\ nodes = <<TypeDefinition("A",
                    [j \in 1..MaxParams |->
                        Parameter(ParamList(MaxParams)[j][1], ParamList(MaxParams)[j][2])])>>
    /\ pos = Len(tokens)

\* C16: every node the parser has emitted is a TypeDefinition whose
\* parameter list holds only Parameter nodes, or an Unexpected marker, and
\* analyze never runs into its unreachable arm.
C16_TopLevelNodes ==
    /\ \A i \in DOMAIN nodes :
          \/ nodes[i].kind = "Unexpected"
          \/ /\ nodes[i].kind = "TypeDefinition"
             /\ \A j \in DOMAIN nodes[i].parameters :
                    nodes[i].parameters[j].kind = "Parameter"
    /\ pc # "panic"

\* The parser has emitted a marker and then a definition with parameters,
\* and analyze has returned.
C16_Witness ==
    /\ pc = "done"
    /\ Len(nodes) = 2
    /\ nodes[1].kind = "Unexpected"
    /\ nodes[2].kind = "TypeDefinition"
    /\ Len(nodes[2].parameters) = MaxParams

---------------------------------------------------------------------------
(* Lexer.                                                                  *)

\* From position i on, the text holds only whitespace up to its end or up to
\* a NUL.
AtEndOfText(cs, i) ==
    \E q \in i..Len(cs) :
        /\ \A k \in (i + 1)..q : is_whitespace(cs[k])
        /\ (q = Len(cs) \/ cs[q + 1] = NUL)

\* C17: iterating the lexer terminates; it yields at most one token per
\* character taken and takes no more characters than the text has; it
\* yields nothing for an empty or whitespace-only text; it never yields the
\* EOF token; and where only whitespace is left before the end of the text
\* or before a NUL, the next answer is None.
C17_LexerTerminates ==
    /\ <>(lstate = "ended")
    /\ [](Len(lexed) <= ipos /\ ipos <= Len(input))
    /\ []((\A k \in DOMAIN input : is_whitespace(input[k])) => lexed = <<>>)
    /\ [](\A k \in DOMAIN lexed : lexed[k].kind \notin {"EOF", "None"})
    /\ [][ (lstate = "lexing" /\ AtEndOfText(input, ipos))
              => (lstate' = "ended" /\ lexed' = lexed) ]_vars

\* The iteration has ended at a NUL, with a keyword yielded before it and
\* text left behind it.
C17_Witness ==
    /\ lstate = "ended"
    /\ Len(lexed) = 1
    /\ lexed[1].kind = "Type"
    /\ ipos < Len(input)
    /\ input[ipos] = NUL

\* The Parameter nodes of `name: type` entries, in their order.
Parameters(params) ==
    [j \in DOMAIN params |-> Parameter(params[j][1], params[j][2])]

\* C18: a well-formed statement with k >= 1 parameters parses to the one
\* TypeDefinition of its name with a Parameter per entry, in source order
\* and with repeated field names kept, and exactly its tokens are consumed.
C18_WellFormedStatement ==
    [][ \A n \in StmtNames, k \in 1..MaxParams :
          (pc = "analyze" /\ StartsWith(tokens, pos, Statement(n, ParamList(k), FALSE)))
            => /\ nodes' = Append(nodes, TypeDefinition(n, Parameters(ParamList(k))))
               /\ pos' = pos + Len(Statement(n, ParamList(k), FALSE)) ]_vars

\* `tipo B(x: B, x: A);` has been parsed in front of further tokens: both
\* parameters named x are there, in source order.
C18_Witness ==
    /\ StartsWith(tokens, 0, Statement("B", ParamList(2), FALSE))
    /\ nodes = <<TypeDefinition("B", <<Parameter("x", "B"), Parameter("x", "A")>>)>>
    /\ pos = Len(Statement("B", ParamList(2), FALSE))
    /\ pos < Len(tokens)

\* The grammar of a statement as a walk over its tokens:
\*   statement  := "tipo" Identifier "(" parameters? ")" ";"
\*   parameters := parameter ("," parameter)* ","?
\*   parameter  := Identifier ":" Identifier
\* Where the walk stands after the token t, "reject" when t deviates.
GrammarStep(state, t) ==
    CASE state = "tipo"  -> IF t = Tok("Type") THEN "name" ELSE "reject"
      [] state = "name"  -> IF t.kind = "Ident" THEN "(" ELSE "reject"
      [] state = "("     -> IF t = Tok("ParL") THEN "parameters" ELSE "reject"
      [] state = "parameters" ->
             IF t.kind = "Ident" THEN ":"
             ELSE IF t = Tok("ParR") THEN ";" ELSE "reject"
      [] state = ":"     -> IF t = Tok("Colon") THEN "type" ELSE "reject"
      [] state = "type"  -> IF t.kind = "Ident" THEN "," ELSE "reject"
      [] state = ","     ->
             IF t = Tok("Comma") THEN "parameters"
             ELSE IF t = Tok("ParR") THEN ";" ELSE "reject"
      [] state = ";"     -> IF t = Tok("Semicolon") THEN "end" ELSE "reject"

\* The walk over the tokens after position p: Ok at the end of a statement,
\* else the first token that deviates (EOF where the tokens run out) and the
\* position right behind it.
RECURSIVE FirstDeviation(_, _, _)
FirstDeviation(ts, p, state) ==
    IF state = "end" THEN [ok |-> TRUE, pos |-> p]
    ELSE IF GrammarStep(state, peek_token(ts, p)) = "reject"
         THEN Err(ErrToken(peek_token(ts, p)), IF p < Len(ts) THEN p + 1 ELSE p)
    ELSE FirstDeviation(ts, p + 1, GrammarStep(state, peek_token(ts, p)))

\* C20: where the tokens at the parser's position do not match the grammar
\* of a statement, parse_definition returns the first deviating token (EOF
\* where the tokens run out) and has read nothing behind it; and where a
\* parameter is followed by neither Comma nor ParR, parse_parameters returns
\* the parameters read so far and parse_definition reports that token.
C20_FirstDeviatingToken ==
    pc = "analyze" =>
        /\ ~FirstDeviation(tokens, pos, "tipo").ok
              => parse_definition(tokens, pos) = FirstDeviation(tokens, pos, "tipo")
        /\ \A n \in StmtNames :
              ( /\ StartsWith(tokens, pos, <<Tok("Type"), Ident(n), Tok("ParL"),
                                              Ident("x"), Tok("Colon"), Ident("B")>>)
                /\ peek_token(tokens, pos + 6) \notin {Tok("Comma"), Tok("ParR")} )
              => /\ parse_parameters(tokens, pos + 3)
                        = Ok(<<Parameter("x", "B")>>, pos + 6)
                 /\ parse_definition(tokens, pos)
                        = Err(ErrToken(peek_token(tokens, pos + 6)),
                              IF pos + 6 < Len(tokens) THEN pos + 7 ELSE pos + 6)

\* Position q lies right behind the first Semicolon after position p of ts,
\* or at the end of the sequence (the first None, or the tokens used up)
\* when no Semicolon comes before it.
BehindFirstSemicolon(ts, p, q) ==
    /\ p <= q /\ q <= Len(ts)
    /\ \A k \in (p + 1)..(q - 1) : ts[k] \notin {Tok("Semicolon"), None}
    /\ IF \E k \in (p + 1)..Len(ts) : ts[k] \in {Tok("Semicolon"), None}
       THEN q > p /\ ts[q] \in {Tok("Semicolon"), None}
       ELSE q = Len(ts)

\* C21: from the current position or any later one, advance_until_semicolon
\* discards tokens up to and including the first Semicolon: nothing it
\* passes over is a Semicolon and it stops right behind the first one, so
\* that the token read next is the one that follows, a second Semicolon
\* included; with no Semicolon left it stops at the end of the sequence.
C21_DiscardsThroughFirstSemicolon ==
    \A p \in pos..Len(tokens) :
        BehindFirstSemicolon(tokens, p, advance_until_semicolon(tokens, p))

\* `tipo A(x B); ; tipo A(x: B);` has been parsed: recovery from the first
\* error stopped behind the first Semicolon, and the second Semicolon was
\* read next and reported.
C21_Witness ==
    /\ pc = "done"
    /\ nodes = <<Unexpected(Ident("B")), Unexpected(Tok("Semicolon"))>>
    /\ parse_definition(tokens, 0).pos = 5
    /\ advance_until_semicolon(tokens, 5) = 7
    /\ tokens[7] = Tok("Semicolon")
    /\ tokens[8] = Tok("Semicolon")

\* The reference tokenization of the characters of cs from the i-th on:
\* whitespace is skipped; the five marks give their tokens; an alphabetic
\* character starts the longest run of alphabetic or digit characters, Type
\* when the run is "tipo" and Ident(run) otherwise; any other character is
\* one Illegal token; a NUL ends the sequence.
Mark(ch) ==
    CASE ch = "(" -> Tok("ParL")
      [] ch = ")" -> Tok("ParR")
      [] ch = ":" -> Tok("Colon")
      [] ch = ";" -> Tok("Semicolon")
      [] ch = "," -> Tok("Comma")

\* The last character of the longest run of alphabetic or digit characters
\* that starts with the i-th.
RunEnd(cs, i) ==
    CHOOSE j \in i..Len(cs) :
        /\ \A k \in i..j : cs[k] \in {"t", "i", "p", "o", "1"}
        /\ (j = Len(cs) \/ cs[j + 1] \notin {"t", "i", "p", "o", "1"})

RECURSIVE Reference(_, _)
Reference(cs, i) ==
    IF i > Len(cs) \/ cs[i] = NUL THEN <<>>
    ELSE IF cs[i] = " " THEN Reference(cs, i + 1)
    ELSE IF cs[i] \in {"(", ")", ":", ";", ","}
         THEN <<Mark(cs[i])>> \o Reference(cs, i + 1)
    ELSE IF cs[i] \in {"t", "i", "p", "o"}
         THEN <<IF SubSeq(cs, i, RunEnd(cs, i)) = <<"t", "i", "p", "o">>
                THEN Tok("Type")
                ELSE Ident(SubSeq(cs, i, RunEnd(cs, i)))>>
              \o Reference(cs, RunEnd(cs, i) + 1)
    ELSE <<Tok("Illegal")>> \o Reference(cs, i + 1)

\* Every token the lexer's iteration yields for the characters of cs from
\* position i on.
RECURSIVE LexAll(_, _)
LexAllFrom(cs, r) ==
    IF r.item = None THEN <<>> ELSE <<r.item>> \o LexAll(cs, r.pos)
LexAll(cs, i) == LexAllFrom(cs, Lexer_next(cs, i))

\* C22: the tokens the lexer has yielded are the beginning of the reference
\* tokenization of its text, and all of it once the iteration has ended;
\* and a blank put in at a token boundary (where the lexer stands between
\* two tokens) leaves the token sequence of the text as it was.
C22_ReferenceTokenization ==
    /\ Len(lexed) <= Len(Reference(input, 1))
    /\ lexed = SubSeq(Reference(input, 1), 1, Len(lexed))
    /\ lstate = "ended" => lexed = Reference(input, 1)
    /\ lstate = "lexing" => LexAll(Insert(input, ipos, " "), 0) = LexAll(input, 0)

\* `#1o1` has been lexed to its end: the mark and the leading digit gave one
\* Illegal each, the word that holds a digit gave an identifier.
C22_Witness ==
    /\ input = <<"#", "1", "o", "1">>
    /\ lstate = "ended"
    /\ lexed = <<Tok("Illegal"), Tok("Illegal"), Ident(<<"o", "1">>)>>

====
